---- MODULE Spec2Model ----
(***************************************************************************)
(* Model of the interleaved-thinking demo runner (src/demo_runner.py) and  *)
(* its tool registry (src/tools.py).                                       *)
(*                                                                         *)
(* One run of run_demo is a loop: issue a completion request, log and      *)
(* append the assistant message, invoke the requested tools one by one,    *)
(* and repeat until a response carries no tool calls; then write the       *)
(* completion record and the summary.  An uncaught Python exception ends   *)
(* the run (pc = "failed").                                                *)
(*                                                                         *)
(* Python values: strings are TLA+ strings, the value None of a string     *)
(* field is the reserved string None, a dict is a function from its keys   *)
(* (the empty dict is << >>), a list is a sequence.  The usage counters    *)
(* mix types (None, int, str), so they are tagged records (PyNone, PyInt,  *)
(* PyStr).                                                                 *)
(***************************************************************************)
EXTENDS Integers, Sequences, FiniteSets

VARIABLES
    scenario,           \* run_demo's argument
    clock,              \* wall clock (UTC), in ticks of 1/TicksPerSecond s
    files,              \* demo_logs/: run_id -> the records of <run_id>.jsonl
    run_id,             \* run_id of the current run (log_path is derived from it)
    run_no,             \* number of the current run (1, 2, ...)
    writers,            \* history: run_id -> the runs that have written to that file
    budget,             \* what the model still explores: completion requests, tool calls
    pc,                 \* position of the run: request, tools, final, done, failed
    error,              \* the exception that ended the run ("none" while none)
    messages,           \* the message history
    step,               \* step counter
    tool_invocations,   \* tool-invocation counter
    thinking_segments,  \* thinking-segment counter
    message,            \* response.choices[0].message of the current turn: its content,
                        \* its tool calls, whether its first reasoning segment has text
    tc_index,           \* position of the for loop over message.tool_calls
    requests,           \* history: the message history sent with each completion request
    calls,              \* history: the handler invocations, in order
    events,             \* history: transcript writes and console prints, in order
    cost_args,          \* a call of calc_cost on its own: its arguments
    cost_ret,           \* ... and what it returned
    lookup_args,        \* a call of a tool on its own: the tool, its document, its argument
    lookup_ret          \* ... and what it returned or raised

vars == <<scenario, clock, files, run_id, run_no, writers, budget, pc, error,
          messages, step, tool_invocations, thinking_segments, message,
          tc_index, requests, calls, events,
          cost_args, cost_ret, lookup_args, lookup_ret>>

\* the calls of the functions on their own; a run leaves them alone
calls_alone == <<cost_args, cost_ret, lookup_args, lookup_ret>>

(***************************************************************************)
(* Bounds of the model.                                                    *)
(***************************************************************************)
\* completion requests explored in a single run
MaxStep == 3
\* tool calls in one response
MaxCalls == 2
\* tool calls explored in a single run, over all its responses
MaxToolCalls == 3
\* completion requests explored over all the runs of SpecRuns
MaxRunRequests == 2
\* tool calls explored over all the runs of SpecRuns
MaxRunToolCalls == 1
\* runs started in SpecRuns
MaxRuns == 2
\* last clock tick of the model
MaxClock == 2
\* clock ticks in one second
TicksPerSecond == 2
\* completion requests explored in the run of SpecFair
MaxFairRequests == 2
\* tool calls explored in the run of SpecFair
MaxFairToolCalls == 1
\* largest token count (in absolute value) calc_cost is called with on its own
MaxTokens == 6
\* lines of a document a tool is called on
MaxDocLines == 3

(***************************************************************************)
(* Python values.                                                          *)
(***************************************************************************)
None == "None"

PyNone == [py |-> "None"]

PyInt(n) == [py |-> "int", v |-> n]

PyStr(s) == [py |-> "str", v |-> s]

\* truth value of a str-or-None value
Truthy(s) == s # None /\ s # ""

\* Python's  a or b  on str-or-None values
Or(a, b) == IF Truthy(a) THEN a ELSE b

Last(s) == s[Len(s)]

(***************************************************************************)
(* Program constants.                                                      *)
(***************************************************************************)
\* the user prompt of each scenario (the prompt texts are abbreviated)
SCENARIOS ==
    [context_package   |-> "user_prompt: design system brief",
     frontend_showcase |-> "user_prompt: front-end action plan"]

SYSTEM_PROMPT == "You are MiniMax-M2 running in interleaved mode."

\* the registered tools, each with the one parameter its handler takes
TOOL_REGISTRY ==
    [get_design_tokens    |-> "category",
     get_component_spec   |-> "component",
     get_pattern_guidance |-> "topic"]

(***************************************************************************)
(* What the completion endpoint may return: the inputs of the loop.        *)
(***************************************************************************)
\* the tool calls a response may ask for, as name and argument string:
\* get_design_tokens with a missing, an empty, a fitting and a broken argument
\* string, get_component_spec with a fitting argument, and a tool that is not
\* registered
ToolRequests ==
    ({"get_design_tokens"} \X {None, "", "{\"category\": \"colors\"}", "{\"category\": "})
    \cup {<<"get_component_spec", "{\"component\": \"Button\"}">>}
    \cup {<<"get_layout_grid", "{\"category\": \"colors\"}">>}

\* content of a response message
Contents == {None, "Here is the brief."}

\* reasoning_details of a response message: none, one segment, a first
\* segment with empty text before a second one, a first segment without text
ReasoningDetails ==
    { << >>,
      << [text |-> "plan the lookup"] >>,
      << [text |-> ""], [text |-> "later segment"] >>,
      << [signature |-> "sig"] >> }

\* response.usage of the final response
Usages ==
    { PyNone,
      [py |-> "usage", prompt_tokens |-> PyInt(1200), completion_tokens |-> PyInt(300),
       total_tokens |-> PyInt(1500)],
      [py |-> "usage", prompt_tokens |-> PyNone, completion_tokens |-> PyInt(0),
       total_tokens |-> PyNone],
      [py |-> "usage", prompt_tokens |-> PyInt(-5), completion_tokens |-> PyInt(-1),
       total_tokens |-> PyInt(-6)],
      [py |-> "usage", prompt_tokens |-> PyStr("n/a"), completion_tokens |-> PyInt(300),
       total_tokens |-> PyInt(300)] }

\* identifiers the endpoint gives to the tool calls of one response
CallIds == <<"call_1", "call_2", "call_3", "call_4">>

ToolCallAt(i, name, arguments) ==
    [id |-> CallIds[i], type |-> "function",
     function |-> [name |-> name, arguments |-> arguments]]

ToolCallLists ==
    UNION { { [i \in 1..k |-> ToolCallAt(i, f[i][1], f[i][2])] :
                f \in [1..k -> ToolRequests] } : k \in 0..MaxCalls }

\* choice.message of a response
ResponseMessages ==
    [content : Contents, reasoning_details : ReasoningDetails, tool_calls : ToolCallLists]

(***************************************************************************)
(* The pure parts of run_demo.                                             *)
(***************************************************************************)
\* datetime.utcnow().strftime("%Y%m%d-%H%M%S"): the time truncated to whole
\* seconds (the formatted text is one-to-one with the second)
RunId(now) == now \div TicksPerSecond

RunIds == {RunId(t) : t \in 0..MaxClock}

\* dict.get(key, default)
Get(d, key, default) == IF key \in DOMAIN d THEN d[key] ELSE default

\* the first reasoning segment of a response is there and has non-empty text
FirstSegmentHasText(reasoning_details) ==
    /\ Len(reasoning_details) > 0
    /\ "text" \in DOMAIN reasoning_details[1]
    /\ reasoning_details[1].text # ""

\* variant of Thinking: the text of the first reasoning segment that has one
Thinking_AnySegment(reasoning_details) ==
    LET with_text == {i \in 1..Len(reasoning_details) :
                         Get(reasoning_details[i], "text", "") # ""}
    IN  IF with_text = {} THEN ""
        ELSE reasoning_details[CHOOSE i \in with_text : \A j \in with_text : i <= j].text

\* the thinking text of a response: the text of the first reasoning segment
Thinking(reasoning_details) ==
    IF Len(reasoning_details) > 0 THEN Get(reasoning_details[1], "text", "") ELSE ""

\* tc.model_dump() of every tool call of the message
ToolCallPayloads(tool_calls) ==
    [i \in 1..Len(tool_calls) |->
        [id |-> tool_calls[i].id, type |-> tool_calls[i].type,
         function |-> [name |-> tool_calls[i].function.name,
                       arguments |-> tool_calls[i].function.arguments]]]

\* variant of AssistantEvent: the record carries the step counter as it was
\* before the turn
AssistantEvent_StepBefore(st, thinking, msg) ==
    [step |-> st - 1, type |-> "assistant", thinking |-> thinking,
     content |-> msg.content, tool_calls |-> ToolCallPayloads(msg.tool_calls)]

\* the record of kind assistant
AssistantEvent(st, thinking, msg) ==
    [step |-> st, type |-> "assistant", thinking |-> thinking,
     content |-> msg.content, tool_calls |-> ToolCallPayloads(msg.tool_calls)]

\* variant of AssistantRecord: the content is stored as received, None included
AssistantRecord_RawContent(msg) ==
    IF Len(ToolCallPayloads(msg.tool_calls)) > 0
    THEN [role |-> "assistant", content |-> msg.content,
          tool_calls |-> ToolCallPayloads(msg.tool_calls)]
    ELSE [role |-> "assistant", content |-> msg.content]

\* the assistant message appended to the history
AssistantRecord(msg) ==
    IF Len(ToolCallPayloads(msg.tool_calls)) > 0
    THEN [role |-> "assistant", content |-> Or(msg.content, ""),
          tool_calls |-> ToolCallPayloads(msg.tool_calls)]
    ELSE [role |-> "assistant", content |-> Or(msg.content, "")]

\* json.loads on the argument strings of the model: a dict, or JSONDecodeError
JsonLoads(text) ==
    CASE text = "{}" -> [ok |-> TRUE, value |-> << >>]
      [] text = "{\"category\": \"colors\"}" -> [ok |-> TRUE, value |-> [category |-> "colors"]]
      [] text = "{\"component\": \"Button\"}" -> [ok |-> TRUE, value |-> [component |-> "Button"]]
      [] OTHER -> [ok |-> FALSE, value |-> << >>]

\* variant of ToolArgs: the argument string is decoded without the "{}" default
ToolArgs_NoDefault(tool_call) == JsonLoads(tool_call.function.arguments)

\* json.loads(tool_call.function.arguments or "{}")
ToolArgs(tool_call) == JsonLoads(Or(tool_call.function.arguments, "{}"))

\* TOOL_REGISTRY.get(tool_name) finds a handler
HasHandler(tool_name) == tool_name \in DOMAIN TOOL_REGISTRY

\* handler(**tool_args) binds its arguments: exactly the handler's one parameter
ArgsBind(tool_name, tool_args) == DOMAIN tool_args = {TOOL_REGISTRY[tool_name]}

\* the JSON payload a handler returns (opaque to the loop; the document text
\* in it is abbreviated)
HandlerResult(tool_name, tool_args) ==
    CASE tool_name = "get_design_tokens" -> "{\"section\": \"colors\", \"tokens\": \"...\"}"
      [] tool_name = "get_component_spec" -> "{\"component\": \"Button\", \"spec\": \"...\"}"
      [] tool_name = "get_pattern_guidance" -> "{\"topic\": \"naming\", \"guidance\": \"...\"}"

\* variant of ToolMessage: the identifier is not taken from the tool call
ToolMessage_FixedId(tool_call, result) ==
    [role |-> "tool", tool_call_id |-> CallIds[1], content |-> result]

\* the tool message appended to the history
ToolMessage(tool_call, result) ==
    [role |-> "tool", tool_call_id |-> tool_call.id, content |-> result]

\* variant of ToolResultEvent: the record carries the invocation counter as its step
ToolResultEvent_CounterAsStep(st, tool_name, result) ==
    [step |-> tool_invocations, type |-> "tool_result", tool |-> tool_name, result |-> result]

\* the record of kind tool_result
ToolResultEvent(st, tool_name, result) ==
    [step |-> st, type |-> "tool_result", tool |-> tool_name, result |-> result]

\* usage.model_dump(), or {} when the response has no usage
UsagePayload(usage) ==
    IF usage.py = "None"
    THEN << >>
    ELSE [prompt_tokens |-> usage.prompt_tokens,
          completion_tokens |-> usage.completion_tokens,
          total_tokens |-> usage.total_tokens]

\* variant of CompletionEvent: the record is written with the kind of the
\* assistant record
CompletionEvent_AssistantKind(st, msg, usage_payload) ==
    [step |-> st, type |-> "assistant", content |-> msg.content, usage |-> usage_payload]

\* the record of kind completion
CompletionEvent(st, msg, usage_payload) ==
    [step |-> st, type |-> "completion", content |-> msg.content, usage |-> usage_payload]

\* truth value of a usage counter
PyTruthy(v) ==
    CASE v.py = "None" -> FALSE
      [] v.py = "int"  -> v.v # 0
      [] v.py = "str"  -> v.v # ""

\* int(usage_payload.get(key) or 0): an int, or ValueError on a non-numeric string
TokenCount(usage_payload, key) ==
    LET v == Get(usage_payload, key, PyNone) IN
    IF ~PyTruthy(v) THEN [ok |-> TRUE, value |-> 0]
    ELSE IF v.py = "int" THEN [ok |-> TRUE, value |-> v.v]
    ELSE [ok |-> FALSE, value |-> 0]

\* the per-token rates, in units of 10^-7 dollars
COST_PER_INPUT_TOKEN == 3

COST_PER_OUTPUT_TOKEN == 12

\* variant of calc_cost: a fixed fee of one unit is added to the input cost
calc_cost_WithBaseFee(prompt_tokens, completion_tokens) ==
    LET input_cost == prompt_tokens * COST_PER_INPUT_TOKEN + 1
        output_cost == completion_tokens * COST_PER_OUTPUT_TOKEN
    IN  <<input_cost, output_cost, input_cost + output_cost>>

calc_cost(prompt_tokens, completion_tokens) ==
    LET input_cost == prompt_tokens * COST_PER_INPUT_TOKEN
        output_cost == completion_tokens * COST_PER_OUTPUT_TOKEN
    IN  <<input_cost, output_cost, input_cost + output_cost>>

(***************************************************************************)
(* The state of a run.                                                     *)
(***************************************************************************)
\* the transcript file of the current run
Transcript == files[run_id]

\* variant of log_event: the file is opened for writing, not for appending
log_event_Truncating(fs, id, event) == [fs EXCEPT ![id] = << event >>]

\* log_event(event): one line appended to the file named after run_id
log_event(fs, id, event) == [fs EXCEPT ![id] = Append(@, event)]

\* history entry of a transcript write
Logged(event) == [ev |-> "log", what |-> event.type, step |-> event.step]

\* history entry of a console print
Printed(what, st) == [ev |-> "print", what |-> what, step |-> st]

\* the message variable before the first response
NoMessage == [content |-> None, tool_calls |-> << >>, first_segment_has_text |-> FALSE]

\* the seed of the message history
SeedMessages(sc) ==
    << [role |-> "system", content |-> SYSTEM_PROMPT],
       [role |-> "user", content |-> SCENARIOS[sc]] >>

\* run_demo up to the loop: seed the history, name the log file, zero the counters
StartOfRun(sc, now, no) ==
    /\ scenario' = sc
    /\ run_id' = RunId(now)
    /\ run_no' = no
    /\ pc' = "request"
    /\ error' = "none"
    /\ messages' = SeedMessages(sc)
    /\ step' = 0
    /\ tool_invocations' = 0
    /\ thinking_segments' = 0
    /\ message' = NoMessage
    /\ tc_index' = 0
    /\ requests' = << >>
    /\ calls' = << >>
    /\ events' = << Printed("banner", 0) >>

\* the scenario of the single run: the default of the command line
DefaultScenario == "context_package"

\* no function is being called on its own
NoCall == [fn |-> "none"]

\* a call that has not returned yet
NotReturned == [done |-> FALSE]

NoCallsAlone ==
    /\ cost_args = NoCall
    /\ cost_ret = NotReturned
    /\ lookup_args = NoCall
    /\ lookup_ret = NotReturned

\* the state of the single run when its loop starts
FirstRun ==
    /\ scenario = DefaultScenario
    /\ clock = 0
    /\ files = [id \in RunIds |-> << >>]
    /\ run_id = RunId(clock)
    /\ run_no = 1
    /\ writers = [id \in RunIds |-> {}]
    /\ pc = "request"
    /\ error = "none"
    /\ messages = SeedMessages(scenario)
    /\ step = 0
    /\ tool_invocations = 0
    /\ thinking_segments = 0
    /\ message = NoMessage
    /\ tc_index = 0
    /\ requests = << >>
    /\ calls = << >>
    /\ events = << Printed("banner", 0) >>

\* what the model explores of a single run
SingleRunBudget == [requests |-> MaxStep, tool_calls |-> MaxToolCalls]

Init ==
    /\ FirstRun
    /\ budget = SingleRunBudget
    /\ NoCallsAlone

(***************************************************************************)
(* One turn: the completion request and what is done with the response.    *)
(***************************************************************************)
\* client.chat.completions.create raises (endpoint or network failure)
RequestFails ==
    /\ pc = "request"
    /\ budget.requests > 0
    /\ budget' = [budget EXCEPT !.requests = @ - 1]
    /\ step' = step + 1
    /\ requests' = Append(requests, messages)
    /\ events' = Append(events, Printed("step_header", step + 1))
    /\ pc' = "failed"
    /\ error' = "endpoint"
    /\ UNCHANGED <<calls_alone, scenario, clock, files, run_id, run_no, writers, messages,
                   tool_invocations, thinking_segments, message, tc_index, calls>>

\* the response has no choices: response.choices[0] raises
ResponseMalformed ==
    /\ pc = "request"
    /\ budget.requests > 0
    /\ budget' = [budget EXCEPT !.requests = @ - 1]
    /\ step' = step + 1
    /\ requests' = Append(requests, messages)
    /\ events' = Append(events, Printed("step_header", step + 1))
    /\ pc' = "failed"
    /\ error' = "malformed_response"
    /\ UNCHANGED <<calls_alone, scenario, clock, files, run_id, run_no, writers, messages,
                   tool_invocations, thinking_segments, message, tc_index, calls>>

\* variant of AfterAssistant: a response without tool calls and without content
\* is not taken as final
AfterAssistant_NeedsContent(msg) ==
    IF Len(msg.tool_calls) > 0 THEN "tools"
    ELSE IF Truthy(msg.content) THEN "final" ELSE "request"

\* where the loop goes after the assistant message: the tool calls, or the final part
AfterAssistant(msg) == IF Len(msg.tool_calls) > 0 THEN "tools" ELSE "final"

\* variant of ReceiveResponse: a response without content and without tool calls
\* is neither logged nor appended to the history
ReceiveResponse_SkipsEmpty ==
    /\ pc = "request"
    /\ budget.requests > 0
    /\ \E msg \in ResponseMessages :
         LET thinking == Thinking(msg.reasoning_details)
             event == AssistantEvent(step + 1, thinking, msg)
             empty == ~Truthy(msg.content) /\ Len(msg.tool_calls) = 0
         IN  /\ Len(msg.tool_calls) <= budget.tool_calls
             /\ budget' = [requests |-> budget.requests - 1,
                           tool_calls |-> budget.tool_calls - Len(msg.tool_calls)]
             /\ files' = IF empty THEN files ELSE log_event(files, run_id, event)
             /\ writers' = [writers EXCEPT ![run_id] = @ \cup {run_no}]
             /\ messages' = IF empty THEN messages ELSE Append(messages, AssistantRecord(msg))
             /\ thinking_segments' = IF thinking # "" THEN thinking_segments + 1
                                     ELSE thinking_segments
             /\ events' = events \o << Printed("step_header", step + 1) >>
                                 \o (IF empty THEN << >> ELSE << Logged(event) >>)
                                 \o (IF thinking # "" THEN << Printed("thought", step + 1) >>
                                     ELSE << >>)
             /\ message' = [content |-> msg.content, tool_calls |-> msg.tool_calls,
                             first_segment_has_text |->
                                 FirstSegmentHasText(msg.reasoning_details)]
             /\ pc' = AfterAssistant(msg)
    /\ step' = step + 1
    /\ requests' = Append(requests, messages)
    /\ tc_index' = 1
    /\ UNCHANGED <<calls_alone, scenario, clock, run_id, run_no, error, tool_invocations, calls>>

\* a response arrives: log the assistant record, append the assistant message,
\* count and print the thinking text
ReceiveResponse ==
    /\ pc = "request"
    /\ budget.requests > 0
    /\ \E msg \in ResponseMessages :
         LET thinking == Thinking(msg.reasoning_details)
             event == AssistantEvent(step + 1, thinking, msg)
         IN  /\ Len(msg.tool_calls) <= budget.tool_calls
             /\ budget' = [requests |-> budget.requests - 1,
                           tool_calls |-> budget.tool_calls - Len(msg.tool_calls)]
             /\ files' = log_event(files, run_id, event)
             /\ writers' = [writers EXCEPT ![run_id] = @ \cup {run_no}]
             /\ messages' = Append(messages, AssistantRecord(msg))
             /\ thinking_segments' = IF thinking # "" THEN thinking_segments + 1
                                     ELSE thinking_segments
             /\ events' = events \o << Printed("step_header", step + 1), Logged(event) >>
                                 \o (IF thinking # "" THEN << Printed("thought", step + 1) >>
                                     ELSE << >>)
             /\ message' = [content |-> msg.content, tool_calls |-> msg.tool_calls,
                             first_segment_has_text |->
                                 FirstSegmentHasText(msg.reasoning_details)]
             /\ pc' = AfterAssistant(msg)
    /\ step' = step + 1
    /\ requests' = Append(requests, messages)
    /\ tc_index' = 1
    /\ UNCHANGED <<calls_alone, scenario, clock, run_id, run_no, error, tool_invocations, calls>>

(***************************************************************************)
(* The loop over message.tool_calls: one action per tool call.             *)
(***************************************************************************)
\* the tool call the for loop is at
CurrentCall == message.tool_calls[tc_index]

\* variant of AfterToolCall: the loop ends after the tool calls of a turn
AfterToolCall_EndsLoop(i, tool_calls) == IF i < Len(tool_calls) THEN "tools" ELSE "final"

\* where the loop goes after a tool call: the next call, or the next turn
AfterToolCall(i, tool_calls) == IF i < Len(tool_calls) THEN "tools" ELSE "request"

\* variant of ToolArgsInvalid: the call is counted before its argument string
\* is decoded
ToolArgsInvalid_Counted ==
    /\ pc = "tools"
    /\ ~ToolArgs(CurrentCall).ok
    /\ tool_invocations' = tool_invocations + 1
    /\ pc' = "failed"
    /\ error' = "tool_arguments"
    /\ UNCHANGED <<calls_alone, scenario, clock, files, run_id, run_no, writers, budget,
                   messages, step, thinking_segments, message, tc_index,
                   requests, calls, events>>

\* json.loads raises on the argument string
ToolArgsInvalid ==
    /\ pc = "tools"
    /\ ~ToolArgs(CurrentCall).ok
    /\ pc' = "failed"
    /\ error' = "tool_arguments"
    /\ UNCHANGED <<calls_alone, scenario, clock, files, run_id, run_no, writers, budget, messages,
                   step, tool_invocations, thinking_segments, message, tc_index,
                   requests, calls, events>>

\* variant of ToolUnknown: the call without a handler is skipped and the loop goes on
ToolUnknown_Skipped ==
    /\ pc = "tools"
    /\ ToolArgs(CurrentCall).ok
    /\ ~HasHandler(CurrentCall.function.name)
    /\ tool_invocations' = tool_invocations + 1
    /\ events' = Append(events, Printed("tool_call", step))
    /\ pc' = AfterToolCall(tc_index, message.tool_calls)
    /\ tc_index' = tc_index + 1
    /\ UNCHANGED <<calls_alone, scenario, clock, files, run_id, run_no, writers, budget, error,
                   messages, step, thinking_segments, message, requests, calls>>

\* the tool name has no handler: RuntimeError
ToolUnknown ==
    /\ pc = "tools"
    /\ ToolArgs(CurrentCall).ok
    /\ ~HasHandler(CurrentCall.function.name)
    /\ tool_invocations' = tool_invocations + 1
    /\ events' = Append(events, Printed("tool_call", step))
    /\ pc' = "failed"
    /\ error' = "unknown_tool"
    /\ UNCHANGED <<calls_alone, scenario, clock, files, run_id, run_no, writers, budget, messages,
                   step, thinking_segments, message, tc_index, requests, calls>>

\* the handler raises: its arguments do not bind (TypeError), or it fails inside
\* (its document cannot be read)
ToolRaises ==
    /\ pc = "tools"
    /\ ToolArgs(CurrentCall).ok
    /\ HasHandler(CurrentCall.function.name)
    /\ tool_invocations' = tool_invocations + 1
    /\ events' = Append(events, Printed("tool_call", step))
    /\ calls' = Append(calls, [step |-> step, id |-> CurrentCall.id,
                               tool |-> CurrentCall.function.name,
                               args |-> ToolArgs(CurrentCall).value,
                               returned |-> FALSE, result |-> None])
    /\ pc' = "failed"
    /\ error' = "tool_raised"
    /\ UNCHANGED <<calls_alone, scenario, clock, files, run_id, run_no, writers, budget, messages,
                   step, thinking_segments, message, tc_index, requests>>

\* variant of InvokeTool: the tool message takes the place of the last message of
\* the history
InvokeTool_ReplacesLast ==
    /\ pc = "tools"
    /\ ToolArgs(CurrentCall).ok
    /\ HasHandler(CurrentCall.function.name)
    /\ ArgsBind(CurrentCall.function.name, ToolArgs(CurrentCall).value)
    /\ LET tool_name == CurrentCall.function.name
           tool_args == ToolArgs(CurrentCall).value
           result == HandlerResult(tool_name, tool_args)
           event == ToolResultEvent(step, tool_name, result)
       IN  /\ tool_invocations' = tool_invocations + 1
           /\ calls' = Append(calls, [step |-> step, id |-> CurrentCall.id,
                                      tool |-> tool_name, args |-> tool_args,
                                      returned |-> TRUE, result |-> result])
           /\ messages' = [messages EXCEPT ![Len(messages)] = ToolMessage(CurrentCall, result)]
           /\ files' = log_event(files, run_id, event)
           /\ writers' = [writers EXCEPT ![run_id] = @ \cup {run_no}]
           /\ events' = events \o << Printed("tool_call", step), Logged(event),
                                     Printed("tool_result", step) >>
    /\ pc' = AfterToolCall(tc_index, message.tool_calls)
    /\ tc_index' = tc_index + 1
    /\ UNCHANGED <<calls_alone, scenario, clock, run_id, run_no, budget, error, step,
                   thinking_segments, message, requests>>

\* the handler returns: append the tool message, log the tool_result record
InvokeTool ==
    /\ pc = "tools"
    /\ ToolArgs(CurrentCall).ok
    /\ HasHandler(CurrentCall.function.name)
    /\ ArgsBind(CurrentCall.function.name, ToolArgs(CurrentCall).value)
    /\ LET tool_name == CurrentCall.function.name
           tool_args == ToolArgs(CurrentCall).value
           result == HandlerResult(tool_name, tool_args)
           event == ToolResultEvent(step, tool_name, result)
       IN  /\ tool_invocations' = tool_invocations + 1
           /\ calls' = Append(calls, [step |-> step, id |-> CurrentCall.id,
                                      tool |-> tool_name, args |-> tool_args,
                                      returned |-> TRUE, result |-> result])
           /\ messages' = Append(messages, ToolMessage(CurrentCall, result))
           /\ files' = log_event(files, run_id, event)
           /\ writers' = [writers EXCEPT ![run_id] = @ \cup {run_no}]
           /\ events' = events \o << Printed("tool_call", step), Logged(event),
                                     Printed("tool_result", step) >>
    /\ pc' = AfterToolCall(tc_index, message.tool_calls)
    /\ tc_index' = tc_index + 1
    /\ UNCHANGED <<calls_alone, scenario, clock, run_id, run_no, budget, error, step,
                   thinking_segments, message, requests>>

(***************************************************************************)
(* The final part: the response carries no tool calls.                     *)
(***************************************************************************)
\* the console prints of the final part before the completion record
FinalPrints(msg, st) == IF Truthy(msg.content) THEN << Printed("final_response", st) >> ELSE << >>

\* the completion record is written, then a usage counter is not a number: ValueError
UsageMalformed ==
    /\ pc = "final"
    /\ \E usage \in Usages :
         LET usage_payload == UsagePayload(usage)
             event == CompletionEvent(step, message, usage_payload)
         IN  /\ \/ ~TokenCount(usage_payload, "prompt_tokens").ok
                \/ ~TokenCount(usage_payload, "completion_tokens").ok
             /\ files' = log_event(files, run_id, event)
             /\ writers' = [writers EXCEPT ![run_id] = @ \cup {run_no}]
             /\ events' = events \o FinalPrints(message, step) \o << Logged(event) >>
    /\ pc' = "failed"
    /\ error' = "malformed_usage"
    /\ UNCHANGED <<calls_alone, scenario, clock, run_id, run_no, budget, messages, step,
                   tool_invocations, thinking_segments, message, tc_index,
                   requests, calls>>

\* the completion record is written, the summary printed, and the run ends
Complete ==
    /\ pc = "final"
    /\ \E usage \in Usages :
         LET usage_payload == UsagePayload(usage)
             event == CompletionEvent(step, message, usage_payload)
             prompt_tokens == TokenCount(usage_payload, "prompt_tokens")
             completion_tokens == TokenCount(usage_payload, "completion_tokens")
         IN  /\ prompt_tokens.ok
             /\ completion_tokens.ok
             /\ files' = log_event(files, run_id, event)
             /\ writers' = [writers EXCEPT ![run_id] = @ \cup {run_no}]
             /\ events' = events \o FinalPrints(message, step)
                    \o << Logged(event),
                          [ev |-> "print", what |-> "summary", step |-> step,
                           tool_calls |-> tool_invocations,
                           thinking_segments |-> thinking_segments,
                           prompt_tokens |-> prompt_tokens.value,
                           completion_tokens |-> completion_tokens.value,
                           cost |-> calc_cost(prompt_tokens.value, completion_tokens.value)],
                          Printed("log_saved", step) >>
    /\ pc' = "done"
    /\ UNCHANGED <<calls_alone, scenario, clock, run_id, run_no, budget, error, messages, step,
                   tool_invocations, thinking_segments, message, tc_index,
                   requests, calls>>

(***************************************************************************)
(* One run.                                                                *)
(***************************************************************************)
Next ==
    \/ RequestFails
    \/ ResponseMalformed
    \/ ReceiveResponse
    \/ ToolArgsInvalid
    \/ ToolUnknown
    \/ ToolRaises
    \/ InvokeTool
    \/ UsageMalformed
    \/ Complete

Spec == Init /\ [][Next]_vars

\* a single run that goes on while it has a next statement to execute
InitFair ==
    /\ FirstRun
    /\ budget = [requests |-> MaxFairRequests, tool_calls |-> MaxFairToolCalls]
    /\ NoCallsAlone

SpecFair == InitFair /\ [][Next]_vars /\ WF_vars(Next)

(***************************************************************************)
(* Several runs, one after the other, over the same demo_logs directory.   *)
(***************************************************************************)
\* the wall clock advances between two runs
Tick ==
    /\ pc \in {"done", "failed"}
    /\ clock < MaxClock
    /\ clock' = clock + 1
    /\ UNCHANGED <<calls_alone, scenario, files, run_id, run_no, writers, budget, pc, error,
                   messages, step, tool_invocations, thinking_segments, message,
                   tc_index, requests, calls, events>>

\* run_demo is called again after the previous run has ended
StartRun ==
    /\ pc \in {"done", "failed"}
    /\ run_no < MaxRuns
    /\ \E sc \in DOMAIN SCENARIOS : StartOfRun(sc, clock, run_no + 1)
    /\ UNCHANGED <<calls_alone, clock, files, writers, budget>>

InitRuns ==
    /\ scenario \in DOMAIN SCENARIOS
    /\ clock = 0
    /\ files = [id \in RunIds |-> << >>]
    /\ run_id = RunId(clock)
    /\ run_no = 1
    /\ writers = [id \in RunIds |-> {}]
    /\ budget = [requests |-> MaxRunRequests, tool_calls |-> MaxRunToolCalls]
    /\ pc = "request"
    /\ error = "none"
    /\ messages = SeedMessages(scenario)
    /\ step = 0
    /\ tool_invocations = 0
    /\ thinking_segments = 0
    /\ message = NoMessage
    /\ tc_index = 0
    /\ requests = << >>
    /\ calls = << >>
    /\ events = << Printed("banner", 0) >>
    /\ NoCallsAlone

NextRuns == Next \/ Tick \/ StartRun

SpecRuns == InitRuns /\ [][NextRuns]_vars

(***************************************************************************)
(* calc_cost on its own: called once with any two token counts.            *)
(***************************************************************************)
TokenCounts == (-MaxTokens)..MaxTokens

InitCalcCost ==
    /\ FirstRun
    /\ budget = SingleRunBudget
    /\ cost_args \in [prompt_tokens : TokenCounts, completion_tokens : TokenCounts]
    /\ cost_ret = NotReturned
    /\ lookup_args = NoCall
    /\ lookup_ret = NotReturned

\* calc_cost(prompt_tokens, completion_tokens) returns its three costs
CallCalcCost ==
    /\ ~cost_ret.done
    /\ cost_ret' = [done |-> TRUE,
                    value |-> calc_cost(cost_args.prompt_tokens, cost_args.completion_tokens)]
    /\ UNCHANGED <<cost_args, lookup_args, lookup_ret, scenario, clock, files, run_id,
                   run_no, writers, budget, pc, error, messages, step, tool_invocations,
                   thinking_segments, message, tc_index, requests, calls, events>>

NextCalcCost == CallCalcCost

SpecCalcCost == InitCalcCost /\ [][NextCalcCost]_vars

(***************************************************************************)
(* The tools of src/tools.py on their own, over the text of their          *)
(* documents.  A text is a sequence of one-character strings; the fixed    *)
(* texts of the code (keys and messages of its payloads) are kept as one   *)
(* element each.                                                           *)
(***************************************************************************)
\* str.lower, on the characters of the model
Lower(c) == IF c = "A" THEN "a" ELSE c

LowerText(t) == [i \in 1..Len(t) |-> Lower(t[i])]

\* the whitespace str.strip removes
IsSpace(c) == c \in {" ", "\n"}

\* str.strip
Strip(t) ==
    LET kept == {i \in 1..Len(t) : ~IsSpace(t[i])}
    IN  IF kept = {} THEN << >>
        ELSE SubSeq(t, CHOOSE i \in kept : \A j \in kept : i <= j,
                       CHOOSE i \in kept : \A j \in kept : i >= j)

\* str.startswith
StartsWith(t, prefix) == Len(prefix) <= Len(t) /\ SubSeq(t, 1, Len(prefix)) = prefix

\* positions where part occurs in t
Occurrences(t, part) == {i \in 1..(Len(t) - Len(part) + 1) : SubSeq(t, i, i + Len(part) - 1) = part}

\* part in t
Contains(t, part) == Occurrences(t, part) # {}

\* str.split(sep): the pieces between the occurrences of sep, empty ones kept
RECURSIVE Split(_, _)
Split(t, sep) ==
    IF ~Contains(t, sep) THEN << t >>
    ELSE LET i == CHOOSE i \in Occurrences(t, sep) : \A j \in Occurrences(t, sep) : i <= j
         IN  << SubSeq(t, 1, i - 1) >> \o Split(SubSeq(t, i + Len(sep), Len(t)), sep)

\* str.splitlines: the lines, without a last empty one
SplitLines(t) ==
    LET pieces == Split(t, << "\n" >>)
    IN  IF Last(pieces) = << >> THEN SubSeq(pieces, 1, Len(pieces) - 1) ELSE pieces

\* sep.join(parts)
RECURSIVE Join(_, _)
Join(sep, parts) ==
    IF parts = << >> THEN << >>
    ELSE IF Len(parts) = 1 THEN parts[1]
    ELSE parts[1] \o sep \o Join(sep, Tail(parts))

\* text[:n]
Truncate(t, n) == SubSeq(t, 1, IF Len(t) < n THEN Len(t) ELSE n)

\* the character budgets of the payloads
TOKENS_BUDGET == 1200

SNIPPET_BUDGET == 1600

\* the heading marker "## "
H2 == << "#", "#", " " >>

\* a dict in insertion order: its items, as pairs of key and value
DictKeys(d) == [i \in 1..Len(d) |-> d[i][1]]

DictHas(d, key) == \E i \in 1..Len(d) : d[i][1] = key

DictGet(d, key) == d[CHOOSE i \in 1..Len(d) : d[i][1] = key][2]

\* d[key] = value: a known key keeps its place
DictSet(d, key, value) ==
    IF DictHas(d, key)
    THEN [i \in 1..Len(d) |-> IF d[i][1] = key THEN << key, value >> ELSE d[i]]
    ELSE Append(d, << key, value >>)

\* the for loop of _load_markdown_sections over the lines
RECURSIVE LoadLines(_, _, _)
LoadLines(lines, current_key, sections) ==
    IF lines = << >> THEN sections
    ELSE LET line == Head(lines)
         IN  IF StartsWith(line, H2)
             THEN LET key == LowerText(Strip(SubSeq(line, 4, Len(line))))
                  IN  LoadLines(Tail(lines), key, DictSet(sections, key, << >>))
             ELSE LoadLines(Tail(lines), current_key,
                            DictSet(sections, current_key,
                                    Append(DictGet(sections, current_key), line)))

\* _load_markdown_sections: the sections with at least one line, keyed by heading
load_markdown_sections(content) ==
    LET introduction == << "i", "n", "t", "r", "o", "d", "u", "c", "t", "i", "o", "n" >>
        sections == LoadLines(SplitLines(content), introduction, << << introduction, << >> >> >>)
        kept == SelectSeq(sections, LAMBDA item : item[2] # << >>)
    IN  [i \in 1..Len(kept) |-> << kept[i][1], Strip(Join(<< "\n" >>, kept[i][2])) >>]

\* json.dumps escapes the line breaks of a string
JsonEscape(t) == [i \in 1..Len(t) |-> IF t[i] = "\n" THEN "\\n" ELSE t[i]]

\* json.dumps of a dict of two strings
JsonDumps(key1, value1, key2, value2) ==
    << "{\"", key1, "\": \"" >> \o JsonEscape(value1)
        \o << "\", \"", key2, "\": \"" >> \o JsonEscape(value2) \o << "\"}" >>

\* str(list of strings), as the f-string writes it
ListRepr(keys) ==
    << "[" >> \o Join(<< ", " >>, [i \in 1..Len(keys) |-> << "'" >> \o keys[i] \o << "'" >>])
              \o << "]" >>

\* what a call gives: the returned payload, or the exception it raised
Returns(payload) == [done |-> TRUE, raised |-> "none", value |-> payload]

Raises(exception) == [done |-> TRUE, raised |-> exception, value |-> << >>]

\* the first of the positions of the matching items of a dict, 0 when there is none
FirstMatch(found) ==
    IF found = {} THEN 0 ELSE CHOOSE i \in found : \A j \in found : i <= j

get_design_tokens(document, category) ==
    LET data == load_markdown_sections(document)
        normalized == LowerText(category)
        i == FirstMatch({n \in 1..Len(data) : Contains(data[n][1], normalized)})
    IN  IF i # 0
        THEN Returns(JsonDumps("section", data[i][1],
                               "tokens", Truncate(data[i][2], TOKENS_BUDGET)))
        ELSE Returns(JsonDumps("section", << "not_found" >>,
                               "tokens", << "No section matched '" >> \o category
                                   \o << "'. Available: " >> \o ListRepr(DictKeys(data))))

\* the for loop of get_component_spec over the blocks; unpacking the lines of a
\* block into header and body raises ValueError when the block has no line
RECURSIVE get_component_spec_blocks(_, _)
get_component_spec_blocks(blocks, component) ==
    IF blocks = << >>
    THEN Returns(JsonDumps("component", component,
                           "spec", << "Component not found in specs document." >>))
    ELSE LET lines == SplitLines(Head(blocks))
         IN  IF lines = << >> THEN Raises("ValueError")
             ELSE IF Head(lines) = << >>
             THEN get_component_spec_blocks(Tail(blocks), component)
             ELSE IF StartsWith(LowerText(Strip(Head(lines))), LowerText(Strip(component)))
             THEN Returns(JsonDumps("component", Strip(Head(lines)),
                                    "spec", Truncate(Strip(Join(<< "\n" >>, Tail(lines))),
                                                     SNIPPET_BUDGET)))
             ELSE get_component_spec_blocks(Tail(blocks), component)

get_component_spec(document, component) ==
    get_component_spec_blocks(Split(document, H2), component)

get_pattern_guidance(document, topic) ==
    LET sections == load_markdown_sections(document)
        normalized == LowerText(topic)
        i == FirstMatch({n \in 1..Len(sections) :
                            \/ Contains(sections[n][1], normalized)
                            \/ Contains(LowerText(sections[n][2]), normalized)})
    IN  IF i # 0
        THEN Returns(JsonDumps("topic", sections[i][1],
                               "guidance", Truncate(sections[i][2], SNIPPET_BUDGET)))
        ELSE Returns(JsonDumps("topic", topic, "guidance", << "No matching pattern found." >>))

\* the lines the documents of the model are made of: a title, a section
\* heading, a line of text, an empty line
DocLines ==
    { << "#", " ", "A" >>,
      << "#", "#", " ", "A", "b" >>,
      << "b" >>,
      << >> }

\* the documents: up to MaxDocLines lines
Documents ==
    UNION { { Join(<< "\n" >>, lines) : lines \in [1..n -> DocLines] } : n \in 0..MaxDocLines }

\* the argument strings: one that occurs in no document, a section name, a
\* part of it, the empty string
Arguments == { << "x" >>, << "A", "b" >>, << "b" >>, << >> }

InitTools ==
    /\ FirstRun
    /\ budget = SingleRunBudget
    /\ cost_args = NoCall
    /\ cost_ret = NotReturned
    /\ lookup_args \in [fn : DOMAIN TOOL_REGISTRY, document : Documents, argument : Arguments]
    /\ lookup_ret = NotReturned

\* what a tool call leaves alone
ToolFrame ==
    UNCHANGED <<cost_args, cost_ret, lookup_args, scenario, clock, files, run_id, run_no,
                writers, budget, pc, error, messages, step, tool_invocations,
                thinking_segments, message, tc_index, requests, calls, events>>

GetDesignTokens ==
    /\ lookup_args.fn = "get_design_tokens"
    /\ ~lookup_ret.done
    /\ lookup_ret' = get_design_tokens(lookup_args.document, lookup_args.argument)
    /\ ToolFrame

GetComponentSpec ==
    /\ lookup_args.fn = "get_component_spec"
    /\ ~lookup_ret.done
    /\ lookup_ret' = get_component_spec(lookup_args.document, lookup_args.argument)
    /\ ToolFrame

GetPatternGuidance ==
    /\ lookup_args.fn = "get_pattern_guidance"
    /\ ~lookup_ret.done
    /\ lookup_ret' = get_pattern_guidance(lookup_args.document, lookup_args.argument)
    /\ ToolFrame

NextTools ==
    \/ GetDesignTokens
    \/ GetComponentSpec
    \/ GetPatternGuidance

SpecTools == InitTools /\ [][NextTools]_vars

(***************************************************************************)
(* Helpers of the properties.                                              *)
(***************************************************************************)
\* positions of the transcript records of one kind
RecordsOfKind(kind) == {i \in 1..Len(Transcript) : Transcript[i].type = kind}

\* the transcript records of one step, in file order
RecordsOfStep(k) == SelectSeq(Transcript, LAMBDA r : r.step = k)

\* the handler invocations of one step, in order
CallsOfStep(k) == SelectSeq(calls, LAMBDA c : c.step = k)

\* the tool calls the response of turn k asked for (from the history sent
\* with request k: the assistant message of turn k directly follows it)
TurnAssistant(k) == messages[Len(requests[k]) + 1]

TurnToolCalls(k) == Get(TurnAssistant(k), "tool_calls", << >>)

\* turn k has received its response and has finished all its tool calls
TurnCompleted(k) == k < Len(requests) \/ (k = Len(requests) /\ pc \in {"request", "final", "done"})

(***************************************************************************)
(* C1: a run that ends without an error has written exactly one record     *)
(* of kind completion, that record is the last one of its transcript, and  *)
(* no run ever writes more than one completion record.                     *)
(***************************************************************************)
C1_OneCompletionRecordLast ==
    /\ Cardinality(RecordsOfKind("completion")) <= 1
    /\ pc = "done" =>
          /\ Cardinality(RecordsOfKind("completion")) = 1
          /\ Last(Transcript).type = "completion"

\* a run with a tool-using turn has ended without an error
C1_Witness ==
    /\ pc = "done"
    /\ step >= 2
    /\ RecordsOfKind("tool_result") # {}

(***************************************************************************)
(* C2: after any fatal failure inside the loop the run has stopped: no     *)
(* step of the run is possible any more, every completion request and      *)
(* every handler invocation was made before the failure, and the           *)
(* transcript holds no completion record.                                  *)
(***************************************************************************)
C2_FailureLeavesNoCompletion ==
    pc = "failed" =>
        /\ ~ENABLED Next
        /\ Len(requests) = step
        /\ RecordsOfKind("completion") = {}

(***************************************************************************)
(* C3: every turn with n >= 1 tool calls that all complete has appended    *)
(* exactly n tool messages directly after its assistant message and before *)
(* the next completion request, the i-th carrying the identifier of the    *)
(* i-th request and the result the handler returned for it.                *)
(***************************************************************************)
C3_ToolMessagesInRequestOrder ==
    \A k \in 1..Len(requests) :
        (TurnCompleted(k) /\ Len(TurnToolCalls(k)) >= 1) =>
            LET base == Len(requests[k]) + 1
                tcs == TurnToolCalls(k)
                n == Len(tcs)
            IN  /\ Len(messages) >= base + n
                /\ TurnAssistant(k).role = "assistant"
                /\ Len(CallsOfStep(k)) = n
                /\ \A i \in 1..n :
                      /\ messages[base + i].role = "tool"
                      /\ messages[base + i].tool_call_id = tcs[i].id
                      /\ CallsOfStep(k)[i].id = tcs[i].id
                      /\ CallsOfStep(k)[i].tool = tcs[i].function.name
                      /\ CallsOfStep(k)[i].returned
                      /\ messages[base + i].content = CallsOfStep(k)[i].result
                /\ k < Len(requests) => Len(requests[k + 1]) = base + n
                /\ k = Len(requests) => Len(messages) = base + n

\* a turn with calls of two different tools has completed and the next request
\* was issued
C3_Witness ==
    \E k \in 1..Len(requests) :
        /\ k < Len(requests)
        /\ Len(TurnToolCalls(k)) = 2
        /\ TurnToolCalls(k)[1].function.name # TurnToolCalls(k)[2].function.name
        /\ messages[Len(requests[k]) + 2].content # messages[Len(requests[k]) + 3].content

(***************************************************************************)
(* C4: a tool call whose name is not in TOOL_REGISTRY fails the run at     *)
(* that call: the loop never gets past it, no handler is invoked for it,   *)
(* no tool message and no tool_result record is written for it or for the  *)
(* calls after it, and no next turn is started.                            *)
(***************************************************************************)
C4_UnknownToolIsFatal ==
    /\ \A k \in 1..Len(requests) :
          TurnCompleted(k) =>
              \A i \in 1..Len(TurnToolCalls(k)) : HasHandler(TurnToolCalls(k)[i].function.name)
    /\ pc = "tools" => \A i \in 1..(tc_index - 1) : HasHandler(message.tool_calls[i].function.name)
    /\ \A i \in 1..Len(calls) : HasHandler(calls[i].tool)
    /\ \A i \in RecordsOfKind("tool_result") : HasHandler(Transcript[i].tool)
    /\ error = "unknown_tool" =>
          /\ pc = "failed"
          /\ ~HasHandler(CurrentCall.function.name)
          /\ Len(CallsOfStep(step)) = tc_index - 1
          /\ Len(RecordsOfStep(step)) = tc_index
          /\ Len(messages) = Len(requests[step]) + tc_index
          /\ Len(requests) = step

\* the run has failed at an unregistered tool that was the first of two calls
C4_Witness ==
    /\ error = "unknown_tool"
    /\ tc_index = 1
    /\ Len(message.tool_calls) = 2

(***************************************************************************)
(* C5: a tool call whose argument string is empty or missing is decoded to *)
(* the empty argument object and its handler is invoked with no keyword    *)
(* arguments.  As claimed, such a call never makes the run fail.           *)
(***************************************************************************)
EmptyArguments(tool_call) == ~Truthy(tool_call.function.arguments)

\* the tool call of the response of turn k that has the given identifier
TurnCallWithId(k, id) ==
    LET tcs == TurnToolCalls(k)
    IN  tcs[CHOOSE i \in 1..Len(tcs) : tcs[i].id = id]

C5_EmptyArgumentsNeverFail ==
    /\ \A i \in 1..Len(calls) :
          EmptyArguments(TurnCallWithId(calls[i].step, calls[i].id)) =>
              (DOMAIN calls[i].args = {} /\ calls[i].returned)
    /\ error \in {"tool_arguments", "tool_raised"} => ~EmptyArguments(CurrentCall)

(***************************************************************************)
(* C5 as amended: a tool call whose argument string is empty or missing is *)
(* decoded to the empty argument object and its handler is invoked with no *)
(* keyword arguments; the decoding never fails the run (the invoked        *)
(* handler may still raise).                                               *)
(***************************************************************************)
C5_EmptyArgumentsDecodeToEmptyObject ==
    /\ \A i \in 1..Len(calls) :
          EmptyArguments(TurnCallWithId(calls[i].step, calls[i].id)) =>
              DOMAIN calls[i].args = {}
    /\ error = "tool_arguments" => ~EmptyArguments(CurrentCall)

\* a handler was invoked with no keyword arguments for a missing or empty
\* argument string, and raised
C5_Witness ==
    /\ Len(calls) >= 1
    /\ DOMAIN Last(calls).args = {}
    /\ CurrentCall.function.arguments \in {None, ""}
    /\ error = "tool_raised"

(***************************************************************************)
(* C6 as claimed: a run in which every turn after the first issues zero    *)
(* tool calls ends after exactly one completion request.                   *)
(***************************************************************************)
C6_OneTurnWhenLaterTurnsHaveNoTools ==
    (pc = "done" /\ \A k \in 2..Len(requests) : Len(TurnToolCalls(k)) = 0) =>
        Len(requests) = 1

(***************************************************************************)
(* C6 as amended: when the first turn issues zero tool calls the loop      *)
(* ends after exactly one turn (one completion request); when the first    *)
(* turn issues tool calls and every later turn issues none, a run that     *)
(* ends without an error has issued exactly two completion requests.       *)
(***************************************************************************)
C6_OneTurnWhenFirstTurnHasNoTools ==
    /\ (Len(messages) >= 3 /\ Len(TurnToolCalls(1)) = 0) =>
          /\ Len(requests) = 1
          /\ step = 1
          /\ pc \in {"final", "done", "failed"}
    /\ (pc = "done" /\ Len(TurnToolCalls(1)) > 0
            /\ \A k \in 2..Len(requests) : Len(TurnToolCalls(k)) = 0) =>
          Len(requests) = 2

\* a run whose first response had no tool calls has ended
C6_Witness ==
    /\ pc = "done"
    /\ Len(TurnToolCalls(1)) = 0
    /\ Len(requests) = 1

(***************************************************************************)
(* C7 as claimed: after a successful run of n tool-using turns and one     *)
(* final turn the transcript holds exactly n records of kind assistant.    *)
(***************************************************************************)
C7_AssistantRecordPerToolTurn ==
    (pc = "done" /\ step >= 2) => Cardinality(RecordsOfKind("assistant")) = step - 1

(***************************************************************************)
(* C7 as amended: after a successful run of n tool-using turns and one     *)
(* final turn the transcript holds exactly n + 1 records of kind assistant *)
(* (one per turn, the final turn included), one tool_result record per     *)
(* tool call of the tool-using turns and exactly one completion record,    *)
(* in the order of the events: turn by turn, the assistant record, then    *)
(* the tool_result records in call order, and the completion record last.  *)
(***************************************************************************)
C7_TranscriptShape ==
    pc = "done" =>
        /\ Cardinality(RecordsOfKind("assistant")) = step
        /\ Cardinality(RecordsOfKind("completion")) = 1
        /\ Cardinality(RecordsOfKind("tool_result")) = Len(calls)
        /\ \A i \in 1..Len(Transcript), j \in 1..Len(Transcript) :
              i < j => Transcript[i].step <= Transcript[j].step
        /\ \A k \in 1..step :
              LET recs == RecordsOfStep(k)
                  tcs == TurnToolCalls(k)
              IN  /\ recs[1].type = "assistant"
                  /\ recs[1].tool_calls = tcs
                  /\ k < step =>
                        /\ Len(tcs) >= 1
                        /\ Len(recs) = 1 + Len(tcs)
                        /\ \A i \in 1..Len(tcs) :
                              /\ recs[1 + i].type = "tool_result"
                              /\ recs[1 + i].tool = tcs[i].function.name
                              /\ recs[1 + i].result = CallsOfStep(k)[i].result
                  /\ k = step =>
                        /\ Len(tcs) = 0
                        /\ Len(recs) = 2
                        /\ recs[2].type = "completion"

\* a run of two tool-using turns and a final turn has ended
C7_Witness ==
    /\ pc = "done"
    /\ step = 3
    /\ Cardinality(RecordsOfKind("tool_result")) >= 3

(***************************************************************************)
(* Reading the transcript back as messages: an assistant record gives the  *)
(* assistant message, a tool_result record gives the tool message whose    *)
(* identifier is that of the matching tool call of the assistant record    *)
(* before it, the completion record gives no message.                      *)
(***************************************************************************)
\* position of the last assistant record at or before position i
AssistantBefore(records, i) ==
    CHOOSE a \in 1..i :
        /\ records[a].type = "assistant"
        /\ \A b \in (a + 1)..i : records[b].type # "assistant"

MessageOfRecord(records, i) ==
    IF records[i].type = "assistant"
    THEN IF Len(records[i].tool_calls) > 0
         THEN [role |-> "assistant", content |-> Or(records[i].content, ""),
               tool_calls |-> records[i].tool_calls]
         ELSE [role |-> "assistant", content |-> Or(records[i].content, "")]
    ELSE LET a == AssistantBefore(records, i)
         IN  [role |-> "tool", tool_call_id |-> records[a].tool_calls[i - a].id,
              content |-> records[i].result]

MessagesOfTranscript(records) ==
    LET turns == SelectSeq(records, LAMBDA r : r.type # "completion")
    IN  [i \in 1..Len(turns) |-> MessageOfRecord(turns, i)]

(***************************************************************************)
(* C8 as claimed: after a successful run the full message history, the     *)
(* system and user seed messages included, is what the transcript records  *)
(* give when read back in file order.                                      *)
(***************************************************************************)
C8_TranscriptGivesFullHistory ==
    pc = "done" => messages = MessagesOfTranscript(Transcript)

(***************************************************************************)
(* C8 as amended: after a successful run the message history after its two *)
(* seed messages (every assistant message with its content and tool-call   *)
(* list, every tool message with its content and identifier, in order) is  *)
(* what the transcript records give when read back in file order; the      *)
(* system and user seed messages are in no record.                         *)
(***************************************************************************)
C8_TranscriptGivesHistoryAfterSeed ==
    pc = "done" =>
        /\ SubSeq(messages, 1, 2) = SeedMessages(scenario)
        /\ SubSeq(messages, 3, Len(messages)) = MessagesOfTranscript(Transcript)
        /\ \A i \in 1..Len(Transcript) :
              /\ Transcript[i].type # "tool_result" =>
                    Transcript[i].content \notin {SYSTEM_PROMPT, SCENARIOS[scenario]}
              /\ Transcript[i].type = "tool_result" =>
                    Transcript[i].result \notin {SYSTEM_PROMPT, SCENARIOS[scenario]}

\* a run of two tool-using turns and a final turn has ended, one of its
\* assistant messages having had no content
C8_Witness ==
    /\ pc = "done"
    /\ step = 3
    /\ Len(messages) >= 7
    /\ \E i \in 3..Len(messages) : messages[i].role = "assistant" /\ messages[i].content = ""

(***************************************************************************)
(* C9: the transcript is append-only: every step of the run leaves each    *)
(* transcript file extended by at most one record and otherwise as it was, *)
(* each log_event call adds exactly one record, and the records are in     *)
(* the file in the order of the events they record.                        *)
(***************************************************************************)
IsPrefix(s, t) == Len(s) <= Len(t) /\ SubSeq(t, 1, Len(s)) = s

\* the transcript writes of the run, in the order they happened
LogEvents == SelectSeq(events, LAMBDA e : e.ev = "log")

C9_TranscriptAppendOnly ==
    /\ [][\A id \in RunIds :
            /\ IsPrefix(files[id], files'[id])
            /\ Len(files'[id]) <= Len(files[id]) + 1]_vars
    /\ [](/\ Len(LogEvents) = Len(Transcript)
          /\ \A i \in 1..Len(Transcript) :
                /\ LogEvents[i].what = Transcript[i].type
                /\ LogEvents[i].step = Transcript[i].step)

\* the transcript holds an assistant record, tool_result records and the
\* completion record
C9_Witness ==
    /\ pc = "done"
    /\ Len(Transcript) >= 4
    /\ RecordsOfKind("tool_result") # {}

(***************************************************************************)
(* C10: every run writes to a transcript file of its own: no file ever     *)
(* holds records of two runs, also when two runs start within the same     *)
(* second.                                                                 *)
(***************************************************************************)
C10_OneRunPerFile ==
    \A id \in RunIds : Cardinality(writers[id]) <= 1

(***************************************************************************)
(* C11: calc_cost is linear in its inputs: for all token counts P and C,   *)
(* calc_cost(2P, 2C) is twice calc_cost(P, C) in each of the three         *)
(* components, calc_cost(0, 0) = (0, 0, 0), and the third component is the *)
(* sum of the first two (P x input rate + C x output rate).                *)
(***************************************************************************)
C11_CalcCostLinear ==
    cost_ret.done =>
        LET P == cost_args.prompt_tokens
            C == cost_args.completion_tokens
            cost == cost_ret.value
            doubled == calc_cost(2 * P, 2 * C)
        IN  /\ \A i \in 1..3 : doubled[i] = 2 * cost[i]
            /\ (P = 0 /\ C = 0) => cost = <<0, 0, 0>>
            /\ cost[1] = P * COST_PER_INPUT_TOKEN
            /\ cost[2] = C * COST_PER_OUTPUT_TOKEN
            /\ cost[3] = cost[1] + cost[2]

\* calc_cost has returned for two positive token counts that differ
C11_Witness ==
    /\ cost_ret.done
    /\ cost_args.prompt_tokens > 0
    /\ cost_args.completion_tokens > cost_args.prompt_tokens
    /\ cost_ret.value[3] > cost_ret.value[2]

(***************************************************************************)
(* C12: a negative prompt-token or completion-token count is rejected or   *)
(* treated as zero by the cost calculation: no cost that calc_cost returns *)
(* for the usage counters of a final response, negative ones included, has *)
(* a negative component.                                                   *)
(***************************************************************************)
C12_NoNegativeCost ==
    \A i \in 1..Len(events) :
        events[i].what = "summary" =>
            \A j \in 1..3 : events[i].cost[j] >= 0

(***************************************************************************)
(* C13: for each of the three tools, every document and every argument     *)
(* that matches no section of the document, the call never raises and      *)
(* returns a JSON payload with a "not found"-style message that lists the  *)
(* available section keys.                                                 *)
(***************************************************************************)
\* the argument, without its case and surrounding blanks, occurs nowhere in
\* the document
AbsentFrom(document, argument) ==
    /\ Strip(argument) # << >>
    /\ ~Contains(LowerText(document), LowerText(Strip(argument)))

C13_NotFoundListsKeysNeverRaises ==
    (lookup_ret.done /\ AbsentFrom(lookup_args.document, lookup_args.argument)) =>
        /\ lookup_ret.raised = "none"
        /\ \A key \in {item[1] : item \in
                          {load_markdown_sections(lookup_args.document)[i] :
                              i \in 1..Len(load_markdown_sections(lookup_args.document))}} :
              Contains(lookup_ret.value, JsonEscape(key))

(***************************************************************************)
(* C14: the loop ends exactly at the first turn whose response carries no  *)
(* tool calls.  A response with tool calls sends the run to its tool       *)
(* calls and, once they are all processed, to the next completion request, *)
(* never to the final part; a response without tool calls sends it to the  *)
(* final part, from where the run reaches its end; no number of turns      *)
(* stops the loop: after any number of tool-using turns the next request   *)
(* is issued (as far as the model explores).                               *)
(***************************************************************************)
C14_EndsAtFirstTurnWithoutToolCalls ==
    /\ [][/\ (pc = "request" /\ pc' # "failed") =>
                pc' = (IF Len(message'.tool_calls) = 0 THEN "final" ELSE "tools")
          /\ pc = "tools" => pc' \in {"tools", "request", "failed"}
          /\ (pc = "tools" /\ pc' = "request") =>
                (tc_index = Len(message.tool_calls) /\ step' = step)
          /\ pc' = "final" => (pc = "request" /\ Len(message'.tool_calls) = 0)
          /\ pc' = "done" => pc = "final"]_vars
    /\ [](pc = "request" /\ budget.requests > 0 => ENABLED ReceiveResponse)
    /\ \A k \in 0..(MaxFairRequests - 1) :
          (pc = "request" /\ step = k /\ budget.requests > 0) ~> (step = k + 1)
    /\ (pc = "tools") ~> (pc \in {"request", "failed"})
    /\ (pc = "final") ~> (pc \in {"done", "failed"})
    /\ ([](pc # "failed") /\ <>(pc = "final")) => <>(pc = "done")

\* a run of as many turns as the model explores has ended: all its turns but
\* the last one used tools
C14_Witness ==
    /\ pc = "done"
    /\ step = MaxFairRequests
    /\ \A k \in 1..(MaxFairRequests - 1) : Len(TurnToolCalls(k)) >= 1
    /\ Len(TurnToolCalls(MaxFairRequests)) = 0

(***************************************************************************)
(* C15: every turn whose response is received writes exactly one record of *)
(* kind assistant and appends exactly one assistant message, whatever the  *)
(* response holds (also when content and tool calls are both empty), both  *)
(* before any tool call of that turn is invoked; the history starts as the *)
(* system message followed by the user message and grows per turn by that  *)
(* one assistant message plus zero or more tool messages.                  *)
(***************************************************************************)
\* the response of turn k has arrived
ResponseReceived(k) ==
    /\ k <= Len(requests)
    /\ ~(k = Len(requests) /\ error \in {"endpoint", "malformed_response"})

\* the messages turn k has added to the history
TurnMessages(k) ==
    SubSeq(messages, Len(requests[k]) + 1,
           IF k < Len(requests) THEN Len(requests[k + 1]) ELSE Len(messages))

\* the assistant records of step k
AssistantRecordsOfStep(k) == {i \in RecordsOfKind("assistant") : Transcript[i].step = k}

C15_OneAssistantRecordAndMessagePerTurn ==
    /\ [](/\ Len(messages) >= 2
          /\ messages[1].role = "system"
          /\ messages[2].role = "user"
          /\ Len(requests) >= 1 => requests[1] = SeedMessages(scenario)
          /\ \A i \in RecordsOfKind("assistant") : Transcript[i].step \in 1..Len(requests)
          /\ \A k \in 1..Len(requests) :
                IF ResponseReceived(k)
                THEN /\ Cardinality(AssistantRecordsOfStep(k)) = 1
                     /\ Len(TurnMessages(k)) >= 1
                     /\ TurnMessages(k)[1].role = "assistant"
                     /\ \A i \in 2..Len(TurnMessages(k)) : TurnMessages(k)[i].role = "tool"
                ELSE /\ AssistantRecordsOfStep(k) = {}
                     /\ TurnMessages(k) = << >>
          /\ \A i \in 1..Len(events) :
                events[i].what = "tool_call" =>
                    \E j \in 1..(i - 1) : events[j] = [ev |-> "log", what |-> "assistant",
                                                       step |-> events[i].step])
    /\ [][(tool_invocations' # tool_invocations \/ calls' # calls) =>
              /\ Cardinality(AssistantRecordsOfStep(step)) = 1
              /\ Len(messages) > Len(requests[step])
              /\ TurnAssistant(step).role = "assistant"]_vars

\* a response without content and without tool calls was received in the
\* turn after a tool-using turn, and has its record and its message
C15_Witness ==
    /\ step = 2
    /\ pc = "final"
    /\ message = NoMessage
    /\ Len(TurnMessages(1)) >= 2
    /\ Last(messages) = [role |-> "assistant", content |-> ""]
    /\ Last(Transcript).type = "assistant"
    /\ Last(Transcript).content = None

(***************************************************************************)
(* C16: the message history is append-only and its messages are immutable: *)
(* every step of the run leaves the history as it was or extends it, and   *)
(* the history sent with each completion request is the complete ordered   *)
(* history so far: the seed, every earlier assistant message and every     *)
(* earlier tool message, in order.                                         *)
(***************************************************************************)
\* the handler invocations that returned in the turns before turn k
ReturnedBefore(k) == SelectSeq(calls, LAMBDA c : c.returned /\ c.step < k)

C16_HistoryAppendOnly ==
    /\ [][IsPrefix(messages, messages')]_vars
    /\ [][Len(requests') > Len(requests) =>
              /\ Len(requests') = Len(requests) + 1
              /\ Last(requests') = messages
              /\ IsPrefix(requests, requests')]_vars
    /\ [](\A k \in 1..Len(requests) :
              /\ IsPrefix(requests[k], messages)
              /\ k > 1 => IsPrefix(requests[k - 1], requests[k])
              /\ SubSeq(requests[k], 1, 2) = SeedMessages(scenario)
              /\ Len(requests[k]) = 2 + (k - 1) + Len(ReturnedBefore(k))
              /\ Len(SelectSeq(requests[k], LAMBDA m : m.role = "assistant")) = k - 1
              /\ LET tool_messages == SelectSeq(requests[k], LAMBDA m : m.role = "tool")
                 IN  /\ Len(tool_messages) = Len(ReturnedBefore(k))
                     /\ \A i \in 1..Len(tool_messages) :
                           /\ tool_messages[i].tool_call_id = ReturnedBefore(k)[i].id
                           /\ tool_messages[i].content = ReturnedBefore(k)[i].result)

\* the third request was sent with the messages of two tool-using turns
C16_Witness ==
    /\ Len(requests) = 3
    /\ Len(requests[3]) >= 7
    /\ Len(requests[2]) < Len(requests[3])
    /\ requests[3] = messages

(***************************************************************************)
(* C17 as claimed: the step numbers of the transcript records increase     *)
(* along the file: a later record never has the smaller step number, two   *)
(* different records never share a step number, and the first record has   *)
(* step 1.                                                                 *)
(***************************************************************************)
C17_StepsNeverShared ==
    /\ \A i \in 1..Len(Transcript), j \in 1..Len(Transcript) :
          i < j => Transcript[i].step < Transcript[j].step
    /\ Len(Transcript) >= 1 => Transcript[1].step = 1

(***************************************************************************)
(* C17 as amended: the step number of a record is the number of its turn:  *)
(* a later record of the file never has the smaller step number, the first *)
(* record has step 1, each assistant record has the step of the record     *)
(* before it plus one, and the tool_result records and the completion      *)
(* record of a turn share the step number of its assistant record.         *)
(***************************************************************************)
C17_StepsNumberTheTurns ==
    /\ \A i \in 1..Len(Transcript), j \in 1..Len(Transcript) :
          i < j => Transcript[i].step <= Transcript[j].step
    /\ Len(Transcript) >= 1 =>
          /\ Transcript[1].step = 1
          /\ Transcript[1].type = "assistant"
    /\ \A i \in 2..Len(Transcript) :
          Transcript[i].step = IF Transcript[i].type = "assistant"
                               THEN Transcript[i - 1].step + 1
                               ELSE Transcript[i - 1].step
    /\ \A i \in 1..Len(Transcript) : Transcript[i].step \in 1..step

\* the transcript of a run of three turns: the records of the first turn share
\* step 1, the last record has step 3
C17_Witness ==
    /\ Len(Transcript) >= 5
    /\ Transcript[2].type = "tool_result"
    /\ Transcript[2].step = 1
    /\ Last(Transcript).type = "completion"
    /\ Last(Transcript).step = 3

(***************************************************************************)
(* C18: each transcript record is written before or together with the      *)
(* console output of the event it records: the thought text of a turn is   *)
(* never printed before the assistant record of that turn is written, a    *)
(* tool result never before its tool_result record, and the final response *)
(* never before the completion record.                                     *)
(***************************************************************************)
\* the kind of record that records what a console print shows
RecordKindOfPrint(what) ==
    CASE what = "thought" -> "assistant"
      [] what = "tool_result" -> "tool_result"
      [] what = "final_response" -> "completion"
      [] OTHER -> "none"

\* the entries of kind what among the first n events
EventsBefore(n, ev, what) ==
    {j \in 1..n : events[j].ev = ev /\ events[j].what = what}

C18_RecordBeforeConsoleOutput ==
    \A i \in 1..Len(events) :
        (events[i].ev = "print" /\ RecordKindOfPrint(events[i].what) # "none") =>
            /\ \E j \in 1..(i - 1) :
                  events[j] = [ev |-> "log", what |-> RecordKindOfPrint(events[i].what),
                               step |-> events[i].step]
            /\ Cardinality(EventsBefore(i, "print", events[i].what))
                  <= Cardinality(EventsBefore(i, "log", RecordKindOfPrint(events[i].what)))

(***************************************************************************)
(* C19: the step counter, the tool-invocation counter and the              *)
(* thinking-segment counter are zero at the start of each run and never    *)
(* decrease during it; the step counter grows by exactly one per           *)
(* completion request; the thinking-segment counter grows by one in        *)
(* exactly the turns whose first reasoning segment has non-empty text      *)
(* (later segments are never counted), so it never exceeds the step        *)
(* counter.                                                                *)
(***************************************************************************)
C19_CountersMonotonic ==
    /\ step = 0 /\ tool_invocations = 0 /\ thinking_segments = 0
    /\ [][/\ step' \in {step, step + 1}
          /\ tool_invocations' \in {tool_invocations, tool_invocations + 1}
          /\ thinking_segments' \in {thinking_segments, thinking_segments + 1}
          /\ step' = step + 1 <=> Len(requests') = Len(requests) + 1
          /\ thinking_segments' = thinking_segments + 1 <=>
                /\ step' = step + 1
                /\ pc' \in {"tools", "final"}
                /\ message'.first_segment_has_text]_vars
    /\ [](/\ step = Len(requests)
          /\ 0 <= thinking_segments
          /\ thinking_segments <= step
          /\ 0 <= tool_invocations)

\* the run has counted a thinking segment in its first turn and none in its
\* second, whose first segment had no text
C19_Witness ==
    /\ step = 2
    /\ thinking_segments = 1
    /\ ~message.first_segment_has_text
    /\ Last(Transcript).type = "assistant"
    /\ Last(Transcript).thinking = ""
    /\ thinking_segments = 1
    /\ ~message.first_segment_has_text
    /\ pc \in {"tools", "final"}

(***************************************************************************)
(* C20 as claimed: whenever a completion request is issued and when the    *)
(* run ends, with or without a failure, the tool-invocation counter equals *)
(* the number of tool messages in the history and the number of            *)
(* tool_result records in the transcript: a failing tool call is never     *)
(* counted without its message and record.                                 *)
(***************************************************************************)
\* the tool messages of the history
ToolMessages == SelectSeq(messages, LAMBDA m : m.role = "tool")

C20_CounterMatchesMessagesAndRecords ==
    pc \in {"request", "done", "failed"} =>
        /\ tool_invocations = Len(ToolMessages)
        /\ tool_invocations = Cardinality(RecordsOfKind("tool_result"))

(***************************************************************************)
(* C20 as amended: the history holds as many tool messages as the          *)
(* transcript holds tool_result records; the tool-invocation counter       *)
(* equals that number whenever a completion request is issued, between     *)
(* two tool calls, when the run ends without a failure and when it fails   *)
(* in a request, in the usage counters or in the decoding of an argument   *)
(* string (that call is not counted); when the run fails at a tool call    *)
(* with an unknown name or in a tool that raises, that call is counted     *)
(* and has no message and no record: the counter is one ahead.             *)
(***************************************************************************)
C20_CounterAheadOnlyAfterFailedCall ==
    /\ Len(ToolMessages) = Cardinality(RecordsOfKind("tool_result"))
    /\ Len(ToolMessages) = Len(SelectSeq(calls, LAMBDA c : c.returned))
    /\ tool_invocations = Len(ToolMessages)
                            + (IF error \in {"unknown_tool", "tool_raised"} THEN 1 ELSE 0)
    /\ error \in {"unknown_tool", "tool_raised", "tool_arguments"} =>
          /\ pc = "failed"
          /\ Len(ToolMessages) = Len(SelectSeq(requests[step], LAMBDA m : m.role = "tool"))
                                   + (tc_index - 1)

\* the run has failed in the second tool call of a turn, a tool that raised:
\* two calls counted, one tool message, one tool_result record
C20_Witness ==
    /\ error = "tool_raised"
    /\ tc_index = 2
    /\ tool_invocations = 2
    /\ Len(ToolMessages) = 1
    /\ Cardinality(RecordsOfKind("tool_result")) = 1

====
